---- MODULE Spec2Model ----
(***************************************************************************)
(* IV / nature tracker calculations of pokemon-ranger                      *)
(* (src/utils/trackerCalculations.ts).                                     *)
(*                                                                         *)
(* The state is one Tracker record together with the TrackerCalculations   *)
(* the calculation-set builder derives from it.  Every edit of the tracker *)
(* is followed by a wholesale rebuild, as in the application.              *)
(*                                                                         *)
(* Representation:                                                         *)
(*   - an interval [min, max] is the tuple <<min, max>>; the sentinel is   *)
(*     <<-1, -1>>;                                                         *)
(*   - JavaScript's Infinity / -Infinity (Math.min / Math.max of an empty  *)
(*     list) are the integers Infinity / -Infinity, outside every range    *)
(*     the program computes with;                                          *)
(*   - null is the string "null";                                          *)
(*   - a nature modifier is named by its key; x * 0.9 and x * 1.1 under    *)
(*     Math.floor are (x * 9) \div 10 and (x * 11) \div 10;                *)
(*   - a probability is the exact fraction [num, den].                     *)
(***************************************************************************)
EXTENDS Integers, Sequences, FiniteSets, TLC

VARIABLES tracker, calc, query, parse

vars == <<tracker, calc, query, parse>>

NULL == "null"

\* import { STATS } from './constants'; the order is the order of Object.entries
STATS == <<"hp", "attack", "defense", "spAttack", "spDefense", "speed">>

StatSet == {STATS[i] : i \in 1..Len(STATS)}

\* import { NATURE_MODIFIERS } from './calculations': negative 0.9, neutral 1, positive 1.1
NATURE_MODIFIERS == <<"negative", "neutral", "positive">>

NatureKeys == {"negative", "neutral", "positive"}

\* import { NATURES } from './constants': name -> (plus, minus); a neutral
\* nature raises and lowers the same stat
NATURES ==
  [hardy   |-> [plus |-> "attack",   minus |-> "attack"],
   adamant |-> [plus |-> "attack",   minus |-> "spAttack"],
   bold    |-> [plus |-> "defense",  minus |-> "attack"],
   serious |-> [plus |-> "speed",    minus |-> "speed"]]

HIDDEN_POWER_TYPES ==
  <<"Fighting", "Flying", "Poison", "Ground", "Rock", "Bug", "Ghost", "Steel",
    "Fire", "Water", "Grass", "Electric", "Psychic", "Ice", "Dragon", "Dark">>

Infinity == 999

SENTINEL == <<-1, -1>>

------------------------------------------------------------------------------
(* Numeric helpers *)

\* Math.min(...values) / Math.max(...values); of an empty list: Infinity / -Infinity
MathMin(S) == IF S = {} THEN Infinity ELSE CHOOSE x \in S : \A y \in S : x <= y

MathMax(S) == IF S = {} THEN -Infinity ELSE CHOOSE x \in S : \A y \in S : x >= y

\* Number.isFinite
IsFinite(x) == x # Infinity /\ x # -Infinity

\* range(from, to) of ./utils: the integers from..to, both ends included
range(from, to) == from..to

\* Math.ceil(Math.sqrt(ev))
CeilSqrt(ev) == CHOOSE r \in 0..ev : r * r >= ev /\ (r = 0 \/ (r - 1) * (r - 1) < ev)

\* Math.floor(x * modifier) for the three modifiers
ApplyModifier(x, key) ==
  CASE key = "negative" -> (x * 9) \div 10
    [] key = "neutral"  -> x
    [] key = "positive" -> (x * 11) \div 10

------------------------------------------------------------------------------
(* Stat formula (./calculations) *)

calculateStat(level, base, iv, ev, key) ==
  ApplyModifier((((2 * base + iv + (ev \div 4)) * level) \div 100) + 5, key)

calculateGen1Stat(level, base, iv, ev) ==
  ((((base + iv) * 2 + (CeilSqrt(ev) \div 4)) * level) \div 100) + 5

calculateHP(level, base, iv, ev, generation) ==
  IF generation <= 2
    THEN ((((base + iv) * 2 + (CeilSqrt(ev) \div 4)) * level) \div 100) + level + 10
    ELSE (((2 * base + iv + (ev \div 4)) * level) \div 100) + level + 10

calculateStatOrHP(stat, level, baseStat, iv, ev, key, generation) ==
  IF stat = "hp" THEN calculateHP(level, baseStat, iv, ev, generation)
  ELSE IF generation <= 2 THEN calculateGen1Stat(level, baseStat, iv, ev)
  ELSE calculateStat(level, baseStat, iv, ev, key)

------------------------------------------------------------------------------
(* Tracker data.  The base stats, starting level and EV segments are those   *)
(* of the calculator block of the route page (Lillipup).                     *)

\* baseStats="[[45, 60, 45, 25, 45, 55], [65, 80, 65, 35, 65, 60]]", by evolution
arrayToStatLine(a) ==
  [hp |-> a[1], attack |-> a[2], defense |-> a[3],
   spAttack |-> a[4], spDefense |-> a[5], speed |-> a[6]]

BaseStats ==
  [evo \in {0, 1} |->
     IF evo = 0 THEN arrayToStatLine(<<45, 60, 45, 25, 45, 55>>)
                ELSE arrayToStatLine(<<65, 80, 65, 35, 65, 60>>)]

StartingLevel == 5

\* evSegments[5]: level -> EVs gained so far (the levels the model records at)
EvSegments ==
  [level \in {6, 12, 18} |->
     CASE level = 6  -> arrayToStatLine(<<0, 0, 0, 1, 0, 0>>)
       [] level = 12 -> arrayToStatLine(<<0, 3, 0, 1, 0, 2>>)
       [] level = 18 -> arrayToStatLine(<<1, 7, 6, 1, 0, 2>>)]

\* tracker.evSegments[tracker.startingLevel]?.[level]?.[stat] ?? 0
EvAt(level, stat) == IF level \in DOMAIN EvSegments THEN EvSegments[level][stat] ELSE 0

EmptyStatLine == arrayToStatLine(<<0, 0, 0, 0, 0, 0>>)

------------------------------------------------------------------------------
(* IV interval narrowing *)

\* NarrowStep without the intersection with the running interval: the bounds of
\* the IVs of [0, 31] that match this one stat line
NarrowStepForgetful(stat, key, t, evo, level, statLine, acc) ==
  IF acc[1] = -1 THEN SENTINEL
  ELSE IF statLine[stat] = 0 THEN acc
  ELSE LET matchingStats ==
             {possibleIV \in range(0, 31) :
                calculateStatOrHP(stat, level, BaseStats[evo][stat], possibleIV,
                                  EvAt(level, stat), key, t.generation) = statLine[stat]}
       IN IF matchingStats = {} THEN SENTINEL
          ELSE <<MathMin(matchingStats), MathMax(matchingStats)>>

\* The body of the inner reduce: one recorded stat line against the running interval
NarrowStep(stat, key, t, evo, level, statLine, acc) ==
  LET min == acc[1]
      max == acc[2]
  IN IF ~IsFinite(min) \/ ~IsFinite(max) \/ min = -1 THEN SENTINEL
     ELSE IF statLine[stat] = 0 THEN acc
     ELSE LET matchingStats ==
                {possibleIV \in range(min, max) :
                   calculateStatOrHP(stat, level, BaseStats[evo][stat], possibleIV,
                                     EvAt(level, stat), key, t.generation) = statLine[stat]}
          IN IF matchingStats = {} THEN SENTINEL
             ELSE LET minMatchingStat == MathMin(matchingStats)
                      maxMatchingStat == MathMax(matchingStats)
                  IN <<IF min >= minMatchingStat THEN min ELSE minMatchingStat,
                       IF max <= maxMatchingStat THEN max ELSE maxMatchingStat>>

\* Object.entries(statSegments).reduce(..., acc): integer keys, ascending
RECURSIVE NarrowLevels(_, _, _, _, _, _)
NarrowLevels(stat, key, t, evo, levels, acc) ==
  IF levels = {} THEN acc
  ELSE LET level == MathMin(levels)
       IN NarrowLevels(stat, key, t, evo, levels \ {level},
                       NarrowStep(stat, key, t, evo, level,
                                  t.recordedStats[evo][level], acc))

\* Object.entries(tracker.recordedStats).reduce(..., [0, 31]): integer keys, ascending
RECURSIVE NarrowEvos(_, _, _, _, _)
NarrowEvos(stat, key, t, evos, acc) ==
  IF evos = {} THEN acc
  ELSE LET evo == MathMin(evos)
       IN NarrowEvos(stat, key, t, evos \ {evo},
                     NarrowLevels(stat, key, t, evo, DOMAIN t.recordedStats[evo], acc))

\* NarrowRegime started from [1, 31]
NarrowRegimeFromOne(stat, key, t) == NarrowEvos(stat, key, t, DOMAIN t.recordedStats, <<1, 31>>)

NarrowRegime(stat, key, t) == NarrowEvos(stat, key, t, DOMAIN t.recordedStats, <<0, 31>>)

\* tracker.staticNature && NATURES[tracker.staticNature]
HasStaticNature(t) == t.staticNature # NULL

StaticNatureDefinition(t) == NATURES[t.staticNature]

ClampNegative(stat, t) ==
  \/ ~HasStaticNature(t)
  \/ (StaticNatureDefinition(t).minus = stat /\ StaticNatureDefinition(t).plus # stat)

ClampPositive(stat, t) ==
  \/ ~HasStaticNature(t)
  \/ (StaticNatureDefinition(t).minus # stat /\ StaticNatureDefinition(t).plus = stat)

ClampNeutral(stat, t) ==
  \/ ~HasStaticNature(t)
  \/ (StaticNatureDefinition(t).minus = stat /\ StaticNatureDefinition(t).plus = stat)
  \/ (StaticNatureDefinition(t).minus # stat /\ StaticNatureDefinition(t).plus # stat)

StaticIVRange(stat, t) ==
  LET staticIV == t.staticIVs[stat]
  IN [positive |-> IF ClampPositive(stat, t) THEN <<staticIV, staticIV>> ELSE SENTINEL,
      neutral  |-> IF ClampNeutral(stat, t) THEN <<staticIV, staticIV>> ELSE SENTINEL,
      negative |-> IF ClampNegative(stat, t) THEN <<staticIV, staticIV>> ELSE SENTINEL,
      combined |-> <<staticIV, staticIV>>]

DirectInputIVRange(stat, t) ==
  LET directInputIV == t.directInputIVs[stat]
      restrictPositive ==
        t.manualPositiveNature # NULL
          /\ (t.manualPositiveNature # stat \/ t.manualNegativeNature = stat)
      restrictNeutral ==
        (t.manualPositiveNature = stat \/ t.manualNegativeNature = stat)
          /\ ~(t.manualPositiveNature = stat /\ t.manualNegativeNature = stat)
      restrictNegative ==
        t.manualNegativeNature # NULL
          /\ (t.manualNegativeNature # stat \/ t.manualPositiveNature = stat)
  IN [positive |-> IF ClampPositive(stat, t) \/ ~restrictPositive
                     THEN <<directInputIV, directInputIV>> ELSE SENTINEL,
      neutral  |-> IF ClampNeutral(stat, t) \/ ~restrictNeutral
                     THEN <<directInputIV, directInputIV>> ELSE SENTINEL,
      negative |-> IF ClampNegative(stat, t) \/ ~restrictNegative
                     THEN <<directInputIV, directInputIV>> ELSE SENTINEL,
      combined |-> <<directInputIV, directInputIV>>]

ObservedIVRange(stat, t) ==
  LET negative == NarrowRegime(stat, "negative", t)
      neutral  == NarrowRegime(stat, "neutral", t)
      positive == NarrowRegime(stat, "positive", t)
  IN [positive |-> positive,
      negative |-> negative,
      neutral  |-> neutral,
      combined |-> <<MathMin({positive[1], negative[1], neutral[1]} \ {-1}),
                     MathMax({positive[2], negative[2], neutral[2]} \ {-1})>>]

calculatePossibleIVRange(stat, t) ==
  IF t.staticIVs[stat] # -1 THEN StaticIVRange(stat, t)
  ELSE IF t.directInput THEN DirectInputIVRange(stat, t)
  ELSE ObservedIVRange(stat, t)

------------------------------------------------------------------------------
(* Nature inference *)

\* The first of a non-empty set of stats in the order of Object.entries(ivRanges),
\* which is STATS order
FirstOf(stats) == STATS[MathMin({i \in 1..Len(STATS) : STATS[i] \in stats})]

\* Array.prototype.find over Object.entries(ivRanges), given the set of stats that
\* satisfy the predicate: the first of them, or undefined (NULL)
FindStat(stats) == IF stats = {} THEN NULL ELSE FirstOf(stats)

\* The pinned decreased stat, or else the first stat (HP apart) whose positive and
\* neutral intervals are both the sentinel; NULL when there is none
ConfirmedNegative(ivRanges, t) ==
  IF t.manualNegativeNature # NULL THEN t.manualNegativeNature
  ELSE FindStat({stat \in StatSet :
                   stat # "hp" /\ ivRanges[stat].positive[1] = -1
                               /\ ivRanges[stat].neutral[1] = -1})

\* The pinned increased stat, or else the first stat (HP apart) whose negative and
\* neutral intervals are both the sentinel; NULL when there is none
ConfirmedPositive(ivRanges, t) ==
  IF t.manualPositiveNature # NULL THEN t.manualPositiveNature
  ELSE FindStat({stat \in StatSet :
                   stat # "hp" /\ ivRanges[stat].negative[1] = -1
                               /\ ivRanges[stat].neutral[1] = -1})

PossibleNegatives(ivRanges) ==
  {stat \in StatSet : stat # "hp" /\ ivRanges[stat].negative[1] # -1}

PossiblePositives(ivRanges) ==
  {stat \in StatSet : stat # "hp" /\ ivRanges[stat].positive[1] # -1}

\* calculatePossibleNature with the search for the forced increased stat copied
\* from the search for the forced decreased stat
calculatePossibleNatureCopied(ivRanges, t) ==
  LET confirmedNegative == ConfirmedNegative(ivRanges, t)
      confirmedPositive ==
        IF t.manualPositiveNature # NULL THEN t.manualPositiveNature
        ELSE ConfirmedNegative(ivRanges, t)
      possibleNegatives == PossibleNegatives(ivRanges)
      possiblePositives == PossiblePositives(ivRanges)
  IN IF HasStaticNature(t)
       THEN <<StaticNatureDefinition(t).minus, StaticNatureDefinition(t).plus>>
     ELSE IF possibleNegatives = {} \/ possiblePositives = {} THEN <<"attack", "attack">>
     ELSE <<IF confirmedNegative # NULL THEN confirmedNegative
            ELSE IF confirmedPositive # NULL /\ Cardinality(possibleNegatives) = 1
              THEN FirstOf(possibleNegatives) ELSE NULL,
            IF confirmedPositive # NULL THEN confirmedPositive
            ELSE IF confirmedNegative # NULL /\ Cardinality(possiblePositives) = 1
              THEN FirstOf(possiblePositives) ELSE NULL>>

\* calculatePossibleNature with the exclusion applied whether or not the other
\* component is confirmed
calculatePossibleNatureEager(ivRanges, t) ==
  LET confirmedNegative == ConfirmedNegative(ivRanges, t)
      confirmedPositive == ConfirmedPositive(ivRanges, t)
      possibleNegatives == PossibleNegatives(ivRanges)
      possiblePositives == PossiblePositives(ivRanges)
  IN IF HasStaticNature(t)
       THEN <<StaticNatureDefinition(t).minus, StaticNatureDefinition(t).plus>>
     ELSE IF possibleNegatives = {} \/ possiblePositives = {} THEN <<"attack", "attack">>
     ELSE <<IF confirmedNegative # NULL THEN confirmedNegative
            ELSE IF Cardinality(possibleNegatives) = 1
              THEN FirstOf(possibleNegatives) ELSE NULL,
            IF confirmedPositive # NULL THEN confirmedPositive
            ELSE IF Cardinality(possiblePositives) = 1
              THEN FirstOf(possiblePositives) ELSE NULL>>

calculatePossibleNature(ivRanges, t) ==
  LET confirmedNegative == ConfirmedNegative(ivRanges, t)
      confirmedPositive == ConfirmedPositive(ivRanges, t)
      possibleNegatives == PossibleNegatives(ivRanges)
      possiblePositives == PossiblePositives(ivRanges)
      negativeByExclusion ==
        IF confirmedPositive # NULL /\ Cardinality(possibleNegatives) = 1
          THEN FirstOf(possibleNegatives) ELSE NULL
      positiveByExclusion ==
        IF confirmedNegative # NULL /\ Cardinality(possiblePositives) = 1
          THEN FirstOf(possiblePositives) ELSE NULL
  IN IF HasStaticNature(t)
       THEN <<StaticNatureDefinition(t).minus, StaticNatureDefinition(t).plus>>
     ELSE IF possibleNegatives = {} \/ possiblePositives = {} THEN <<"attack", "attack">>
     ELSE <<IF confirmedNegative # NULL THEN confirmedNegative ELSE negativeByExclusion,
            IF confirmedPositive # NULL THEN confirmedPositive ELSE positiveByExclusion>>

\* The nature pair both calculateAllPossibleIVRanges and the builder resolve
ResolveNature(ivRanges, t) ==
  IF t.generation <= 2 THEN <<"attack", "attack">> ELSE calculatePossibleNature(ivRanges, t)

CombineRanges(stat, ivRanges, confirmedNature) ==
  LET confirmedNegative == confirmedNature[1]
      confirmedPositive == confirmedNature[2]
      relevantRanges ==
        (IF confirmedPositive # NULL /\ (confirmedPositive # stat \/ confirmedNegative = stat)
           THEN {} ELSE {ivRanges.positive})
        \cup
        (IF (confirmedPositive = stat \/ confirmedNegative = stat)
              /\ ~(confirmedPositive = stat /\ confirmedNegative = stat)
           THEN {} ELSE {ivRanges.neutral})
        \cup
        (IF confirmedNegative # NULL /\ (confirmedNegative # stat \/ confirmedPositive = stat)
           THEN {} ELSE {ivRanges.negative})
  IN <<MathMin({value[1] : value \in relevantRanges} \ {-1}),
       MathMax({value[2] : value \in relevantRanges} \ {-1})>>

\* preliminaryResults: STATS.reduce((acc, stat) => ({ ...acc, [stat]: ... }), {})
\* builds the object with one entry per stat, written out entry by entry
PreliminaryResults(t) ==
  [hp        |-> calculatePossibleIVRange("hp", t),
   attack    |-> calculatePossibleIVRange("attack", t),
   defense   |-> calculatePossibleIVRange("defense", t),
   spAttack  |-> calculatePossibleIVRange("spAttack", t),
   spDefense |-> calculatePossibleIVRange("spDefense", t),
   speed     |-> calculatePossibleIVRange("speed", t)]

\* The second reduce: every stat's combined interval recomputed under the nature pair
CombinedResults(preliminaryResults, confirmedNature) ==
  LET Final(stat) ==
        [preliminaryResults[stat] EXCEPT
           !.combined = CombineRanges(stat, preliminaryResults[stat], confirmedNature)]
  IN [hp |-> Final("hp"), attack |-> Final("attack"), defense |-> Final("defense"),
      spAttack |-> Final("spAttack"), spDefense |-> Final("spDefense"),
      speed |-> Final("speed")]

\* The nature pair is resolved from the preliminary results
FinalResults(preliminaryResults, t) ==
  CombinedResults(preliminaryResults, ResolveNature(preliminaryResults, t))

calculateAllPossibleIVRanges(t) == FinalResults(PreliminaryResults(t), t)

------------------------------------------------------------------------------
(* Regime exclusivity and possible-value projection *)

\* [negative, neutral, positive] admitted for the stat
getPossibleNatureAdjustmentsForStat(rangeSet, stat, confirmedNature) ==
  LET confirmedNegative == confirmedNature[1]
      confirmedPositive == confirmedNature[2]
      isNegativeValid == rangeSet.negative[1] # -1
      isNeutralValid  == rangeSet.neutral[1] # -1
      isPositiveValid == rangeSet.positive[1] # -1
  IN IF confirmedPositive = stat /\ confirmedNegative # stat THEN <<FALSE, FALSE, TRUE>>
     ELSE IF confirmedNegative = stat /\ confirmedPositive # stat THEN <<TRUE, FALSE, FALSE>>
     ELSE <<isNegativeValid /\ confirmedNegative = NULL,
            isNeutralValid,
            isPositiveValid /\ confirmedPositive = NULL>>

\* The possible / valid arrays are modelled as the sets of their elements
calculatePossibleStatValues(stat, level, baseStat, minIV, maxIV, ev, possibleModifiers, generation) ==
  [possible |-> {calculateStatOrHP(stat, level, baseStat, iv, ev, modifier, generation) :
                   iv \in range(0, 31), modifier \in possibleModifiers},
   valid    |-> {calculateStatOrHP(stat, level, baseStat, iv, ev, modifier, generation) :
                   iv \in range(minIV, maxIV), modifier \in possibleModifiers}]

\* The modifiers calculatePossibleStats keeps for the stat (lines 82-94)
RelevantModifiers(stat, confirmedNature) ==
  LET confirmedNegative == confirmedNature[1]
      confirmedPositive == confirmedNature[2]
      all == IF stat = "hp" THEN {"neutral"} ELSE NatureKeys
      withoutNegative ==
        IF confirmedNegative # NULL /\ confirmedNegative # stat
          THEN all \ {"negative"} ELSE all
      withoutPositive ==
        IF confirmedPositive # NULL /\ confirmedPositive # stat
          THEN withoutNegative \ {"positive"} ELSE withoutNegative
  IN IF confirmedNegative = stat /\ confirmedPositive # stat THEN {"negative"}
     ELSE IF confirmedNegative = stat /\ confirmedPositive = stat THEN {"neutral"}
     ELSE IF confirmedPositive = stat /\ confirmedNegative # stat THEN {"positive"}
     ELSE withoutPositive

\* StatsOfRegime without the early return for a sentinel interval
StatsOfRegimeUnguarded(stat, level, ivRanges, t, evolution, key) ==
  calculatePossibleStatValues(stat, level, BaseStats[evolution][stat],
                              ivRanges[stat][key][1], ivRanges[stat][key][2],
                              EvAt(level, stat), {key}, t.generation)

\* One step of the reduce over the relevant modifiers (lines 96-116)
StatsOfRegime(stat, level, ivRanges, t, evolution, key) ==
  LET values == ivRanges[stat][key]
  IN IF values[1] = -1 THEN [possible |-> {}, valid |-> {}]
     ELSE calculatePossibleStatValues(stat, level, BaseStats[evolution][stat],
                                      values[1], values[2], EvAt(level, stat),
                                      {key}, t.generation)

calculatePossibleStats(stat, level, ivRanges, confirmedNature, t, evolution) ==
  LET keys == RelevantModifiers(stat, confirmedNature)
  IN [possible |-> UNION {StatsOfRegime(stat, level, ivRanges, t, evolution, key).possible :
                            key \in keys},
      valid    |-> UNION {StatsOfRegime(stat, level, ivRanges, t, evolution, key).valid :
                            key \in keys}]

------------------------------------------------------------------------------
(* Hidden-power resolver *)

getIVValuesInSection(section) ==
  IF section[1] = -1 \/ section[2] = -1 THEN {} ELSE range(section[1], section[2])

getUniqueIVValuesInRangeSet(ivRange, stat, confirmedNature) ==
  LET negativeNature == confirmedNature[1]
      positiveNature == confirmedNature[2]
  IN IF negativeNature = stat THEN getIVValuesInSection(ivRange.negative)
     ELSE IF positiveNature = stat THEN getIVValuesInSection(ivRange.positive)
     ELSE (IF negativeNature = NULL THEN getIVValuesInSection(ivRange.negative) ELSE {})
            \cup getIVValuesInSection(ivRange.neutral)
            \cup (IF positiveNature = NULL THEN getIVValuesInSection(ivRange.positive) ELSE {})

\* The fraction of the admissible values with the wanted parity; 0 when none is admissible
calculateOddnessProbababilityOfStat(ivRange, stat, confirmedNature, odd) ==
  LET values == getUniqueIVValuesInRangeSet(ivRange, stat, confirmedNature)
  IN IF Cardinality(values) = 0 THEN [num |-> 0, den |-> 1]
     ELSE [num |-> Cardinality({x \in values : x % 2 = (IF odd THEN 1 ELSE 0)}),
           den |-> Cardinality(values)]

Times(p, q) == [num |-> p.num * q.num, den |-> p.den * q.den]

\* p > q on fractions; the fractions of one call share their denominator
\* unless one of them is zero
GreaterThan(p, q) ==
  IF p.den = q.den THEN p.num > q.num
  ELSE IF q.num = 0 THEN p.num > 0
  ELSE IF p.num = 0 THEN FALSE
  ELSE p.num * q.den > q.num * p.den

\* oddness[i].odd / .even is calculateOddnessProbababilityOfStat of the i-th stat;
\* combination = <<hpOdd, attackOdd, defenseOdd, spAttackOdd, spDefenseOdd, speedOdd>>
ProductOfOddness(oddness, combination) ==
  LET P(i) == IF combination[i] THEN oddness[i].odd ELSE oddness[i].even
  IN Times(Times(Times(Times(Times(P(1), P(2)), P(3)), P(4)), P(5)), P(6))

OddnessOfStats(ivs, confirmedNature) ==
  LET Of(stat) ==
        [even |-> calculateOddnessProbababilityOfStat(ivs[stat], stat, confirmedNature, FALSE),
         odd  |-> calculateOddnessProbababilityOfStat(ivs[stat], stat, confirmedNature, TRUE)]
  IN <<Of(STATS[1]), Of(STATS[2]), Of(STATS[3]), Of(STATS[4]), Of(STATS[5]), Of(STATS[6])>>

calculateHiddenPowerProbability(ivs, confirmedNature, combination) ==
  ProductOfOddness(OddnessOfStats(ivs, confirmedNature), combination)

\* [...new CartesianProduct([false, true] x 6)]: the n-th element, n = 0..63; the
\* first component varies fastest
Combination(n) ==
  <<n % 2 = 1, (n \div 2) % 2 = 1, (n \div 4) % 2 = 1,
    (n \div 8) % 2 = 1, (n \div 16) % 2 = 1, (n \div 32) % 2 = 1>>

\* MostProbable with >= for >: a later combination of equal probability replaces
\* the accumulator
RECURSIVE MostProbableOrEqual(_, _, _, _)
MostProbableOrEqual(probabilities, from, to, acc) ==
  IF from = to
    THEN IF ~GreaterThan(acc.probability, probabilities[from])
           THEN [probability |-> probabilities[from], combination |-> from]
           ELSE acc
    ELSE LET mid == (from + to) \div 2
         IN CHOOSE result \in {MostProbableOrEqual(probabilities, mid + 1, to, left) :
                                 left \in {MostProbableOrEqual(probabilities, from, mid, acc)}} : TRUE

\* probabilities.reduce((acc, value) => value.probability > acc.probability ? value : acc),
\* over the elements from..to of the array, left to right (the recursion splits
\* the index range; the order of the steps is that of the array)
RECURSIVE MostProbable(_, _, _, _)
MostProbable(probabilities, from, to, acc) ==
  IF from = to
    THEN IF GreaterThan(probabilities[from], acc.probability)
           THEN [probability |-> probabilities[from], combination |-> from]
           ELSE acc
    ELSE LET mid == (from + to) \div 2
         IN CHOOSE result \in {MostProbable(probabilities, mid + 1, to, left) :
                                 left \in {MostProbable(probabilities, from, mid, acc)}} : TRUE

Bit(b) == IF b THEN 1 ELSE 0

\* HiddenPowerIndex with the weights in the order of the combination's components
HiddenPowerIndexInStatOrder(combination) ==
  ((Bit(combination[1]) + Bit(combination[2]) * 2 + Bit(combination[3]) * 4
      + Bit(combination[4]) * 8 + Bit(combination[5]) * 16 + Bit(combination[6]) * 32) * 15) \div 63

\* Math.floor(((hp + atk * 2 + def * 4 + speed * 8 + spAtk * 16 + spDef * 32) * 15) / 63)
HiddenPowerIndex(combination) ==
  LET hp    == Bit(combination[1])
      atk   == Bit(combination[2])
      def   == Bit(combination[3])
      spAtk == Bit(combination[4])
      spDef == Bit(combination[5])
      speed == Bit(combination[6])
  IN ((hp + atk * 2 + def * 4 + speed * 8 + spAtk * 16 + spDef * 32) * 15) \div 63

\* combination -1 stands for the initial accumulator's null
calculateHiddenPowerType(ivs, confirmedNature) ==
  LET oddness == OddnessOfStats(ivs, confirmedNature)
      \* calculateHiddenPowerProbability of each combination; the twelve per-stat
      \* fractions are evaluated once and shared by the 64 products
      probabilities == [n \in 0..63 |-> ProductOfOddness(oddness, Combination(n))]
      mostProbableCombination ==
        MostProbable(probabilities, 0, 63,
                     [probability |-> [num |-> 0, den |-> 1], combination |-> -1])
  IN IF mostProbableCombination.combination = -1 THEN NULL
     ELSE HIDDEN_POWER_TYPES[HiddenPowerIndex(Combination(mostProbableCombination.combination)) + 1]

-----
(* Calculation-set builder *)

\* The returned object, given the IV ranges and the nature pair
CalculationSet(ivRanges, confirmedNature) ==
  [ivRanges        |-> ivRanges,
   confirmedNature |-> confirmedNature,
   hiddenPowerType |-> calculateHiddenPowerType(ivRanges, confirmedNature)]

\* The nature pair is resolved again, from the final IV ranges
CalculationSetOfRanges(ivRanges, t) == CalculationSet(ivRanges, ResolveNature(ivRanges, t))

buildTrackerCalculationSet(t) == CalculationSetOfRanges(calculateAllPossibleIVRanges(t), t)

------------------------------------------------------------------------------
(* Type-list parsing.  A string is the sequence of its characters.           *)

\* The type names the specification shows parseTypeDefinition to accept
TYPE_NAMES == {<<"f", "i", "r", "e">>, <<"f", "l", "y", "i", "n", "g">>}

\* String.prototype.toLowerCase on one character of the alphabet used here
LowerChar(c) ==
  CASE c = "F" -> "f" [] c = "I" -> "i" [] c = "R" -> "r" [] c = "E" -> "e"
    [] c = "L" -> "l" [] c = "Y" -> "y" [] c = "N" -> "n" [] c = "G" -> "g"
    [] OTHER -> c

toLowerCase(str) == [i \in 1..Len(str) |-> LowerChar(str[i])]

\* String.prototype.trim: the white space at both ends is dropped
RECURSIVE trim(_)
trim(str) ==
  IF str = <<>> THEN str
  ELSE IF Head(str) = " " THEN trim(Tail(str))
  ELSE IF str[Len(str)] = " " THEN trim(SubSeq(str, 1, Len(str) - 1))
  ELSE str

\* String.prototype.split('/'): the segments between the separators, the empty
\* ones included; current is the segment being read
RECURSIVE SplitRest(_, _)
SplitRest(str, current) ==
  IF str = <<>> THEN <<current>>
  ELSE IF Head(str) = "/" THEN <<current>> \o SplitRest(Tail(str), <<>>)
  ELSE SplitRest(Tail(str), Append(current, Head(str)))

split(str) == SplitRest(str, <<>>)

\* rawTypes.split('/').map(x => x.trim().toLowerCase())
TypeSegments(rawTypes) ==
  [i \in 1..Len(split(rawTypes)) |-> toLowerCase(trim(split(rawTypes)[i]))]

\* typeSegments.find(segment => TYPE_NAMES.indexOf(segment) === -1): <<segment>>
\* for the first such segment, << >> for undefined
InvalidSegment(typeSegments) ==
  IF \A i \in 1..Len(typeSegments) : typeSegments[i] \in TYPE_NAMES THEN <<>>
  ELSE <<typeSegments[MathMin({i \in 1..Len(typeSegments) :
                                 typeSegments[i] \notin TYPE_NAMES})]>>

\* if (invalidSegment): undefined and the empty string are falsy
Truthy(found) == found # <<>> /\ found[1] # <<>>

\* The returned list and the calls of onError, in order, of the given segments
ParseResult(typeSegments, found) ==
  IF Truthy(found)
    THEN [result |-> <<>>, errors |-> <<found[1]>>]
    ELSE [result |-> typeSegments, errors |-> <<>>]

ParseSegments(typeSegments) == ParseResult(typeSegments, InvalidSegment(typeSegments))

parseTypeDefinition(rawTypes) == ParseSegments(TypeSegments(rawTypes))

------------------------------------------------------------------------------
(* Bounds and input sets *)

\* The most stat values recorded in one tracker, per specification
MaxObs == 1

MaxNarrowObs == 2

MaxNatureObs == 4

\* A mistyped stat value: no IV gives it at any level recorded here
Typo == 1

Generations == {2, 3}

Evolutions == DOMAIN BaseStats

RecordLevels == {6, 18}

\* Stat values the creature shows at that level with one of the IVs and some
\* nature, or a typo
ObsValues(stat, evo, level, generation, ivs) ==
  {calculateStatOrHP(stat, level, BaseStats[evo][stat], iv, EvAt(level, stat), key, generation) :
     iv \in ivs, key \in NatureKeys} \cup {Typo}

\* The lowest value under a hindering nature, the highest under a neutral and
\* under a boosting one
NatureObsValues(stat, evo, level, generation) ==
  {calculateStatOrHP(stat, level, BaseStats[evo][stat], 0, EvAt(level, stat), "negative", generation),
   calculateStatOrHP(stat, level, BaseStats[evo][stat], 31, EvAt(level, stat), "neutral", generation),
   calculateStatOrHP(stat, level, BaseStats[evo][stat], 31, EvAt(level, stat), "positive", generation)}

IVPatterns ==
  {arrayToStatLine(<<31, 31, 31, 31, 31, 31>>), arrayToStatLine(<<30, 31, 31, 30, 31, 31>>)}

NoStaticIVs == arrayToStatLine(<<-1, -1, -1, -1, -1, -1>>)

StaticIVChoices == {NoStaticIVs, arrayToStatLine(<<-1, 31, -1, -1, 0, -1>>)}

EmptyTracker(generation) ==
  [generation           |-> generation,
   staticNature         |-> NULL,
   manualNegativeNature |-> NULL,
   manualPositiveNature |-> NULL,
   directInput          |-> FALSE,
   directInputIVs       |-> arrayToStatLine(<<0, 0, 0, 0, 0, 0>>),
   staticIVs            |-> NoStaticIVs,
   recordedStats        |-> << >>,
   evolution            |-> 0]

NoQuery ==
  [stat |-> NULL, level |-> 0, result |-> [possible |-> {}, valid |-> {}]]

\* The most '/'-separated segments of a parsed type list
MaxSegments == 3

\* Segments as typed: type names in any case and with white space around them,
\* the empty segment, white space alone, and two words that are no type names
RawSegments ==
  {<<"F", "i", "r", "e">>, <<" ", "f", "l", "y", "i", "n", "g", " ">>,
   <<"F", "I", "R", "E", " ">>, <<>>, <<" ">>, <<"f", "i", "r">>,
   <<"F", "i", "r", "e", "f", "l", "y">>}

\* The segments joined with '/'
RECURSIVE Join(_)
Join(segments) ==
  IF Len(segments) = 1 THEN segments[1]
  ELSE segments[1] \o <<"/">> \o Join(Tail(segments))

RawTypeLists == {Join(segments) : segments \in UNION {[1..n -> RawSegments] : n \in 1..MaxSegments}}

NoParse == [rawTypes |-> <<>>, called |-> FALSE, result |-> <<>>, errors |-> <<>>]

\* recordedStats[evo]?.[level]?.[stat], 0 when nothing is recorded there
Recorded(t, evo, level, stat) ==
  IF evo \in DOMAIN t.recordedStats /\ level \in DOMAIN t.recordedStats[evo]
    THEN t.recordedStats[evo][level][stat] ELSE 0

\* The (evo, level, stat) places that hold a recorded value
Observations(t) ==
  {o \in Evolutions \X RecordLevels \X StatSet : Recorded(t, o[1], o[2], o[3]) # 0}

ObsCount(t) == Cardinality(Observations(t))

ObservedStats(t) == {o[3] : o \in Observations(t)}

------------------------------------------------------------------------------
(* Operations *)

\* The tracker with one more stat value recorded at (evo, level)
WithRecordedStat(t, evo, level, stat, value) ==
  LET segments == IF evo \in DOMAIN t.recordedStats THEN t.recordedStats[evo] ELSE << >>
      statLine == IF level \in DOMAIN segments THEN segments[level] ELSE EmptyStatLine
      newLine  == [statLine EXCEPT ![stat] = value]
      newSegments == [l \in (DOMAIN segments) \cup {level} |->
                        IF l = level THEN newLine ELSE segments[l]]
  IN [t EXCEPT !.recordedStats =
        [e \in (DOMAIN t.recordedStats) \cup {evo} |->
           IF e = evo THEN newSegments ELSE t.recordedStats[e]]]

\* A stat value is recorded where none was, and the calculation set is rebuilt
RecordStat(stat, evo, level, value) ==
  /\ Recorded(tracker, evo, level, stat) = 0
  /\ tracker' = WithRecordedStat(tracker, evo, level, stat, value)
  /\ calc' = buildTrackerCalculationSet(tracker')
  /\ query' = NoQuery
  /\ UNCHANGED parse

\* The display asks for the stat values possible at a level
QueryPossibleStats(stat, level) ==
  /\ query' = [stat |-> stat, level |-> level,
               result |-> calculatePossibleStats(stat, level, calc.ivRanges,
                                                 calc.confirmedNature, tracker,
                                                 tracker.evolution)]
  /\ UNCHANGED <<tracker, calc, parse>>

------------------------------------------------------------------------------
(* Spec: trackers of every configuration (static IVs, static nature, direct  *)
(* input, manual pins), with few observations                                *)

Configured(t) ==
  \E staticNature \in {NULL, "hardy", "adamant"},
     manualNegativeNature \in {NULL, "attack"},
     manualPositiveNature \in {NULL, "attack", "defense"},
     directInput \in BOOLEAN,
     staticIVs \in StaticIVChoices :
    \* directInputIVs is read in direct-input mode only
    \E directInputIVs \in (IF directInput THEN IVPatterns ELSE {EmptyStatLine}) :
    t = [EmptyTracker(3) EXCEPT
           !.staticNature = staticNature,
           !.manualNegativeNature = manualNegativeNature,
           !.manualPositiveNature = manualPositiveNature,
           !.directInput = directInput,
           !.directInputIVs = directInputIVs,
           !.staticIVs = staticIVs]

Init ==
  /\ \/ \E generation \in Generations : tracker = EmptyTracker(generation)
     \/ Configured(tracker)
  /\ calc = buildTrackerCalculationSet(tracker)
  /\ query = NoQuery
  /\ parse = NoParse

Next ==
  \E stat \in StatSet :
    \E value \in ObsValues(stat, 0, 18, tracker.generation, {31}) :
      /\ ObsCount(tracker) < MaxObs
      /\ RecordStat(stat, 0, 18, value)

Spec == Init /\ [][Next]_vars

------------------------------------------------------------------------------
(* SpecNarrow: the observed-data path; the values of one stat are recorded   *)
(* at several evolution stages and levels, in any order                      *)

InitNarrow ==
  /\ \E generation \in Generations : tracker = EmptyTracker(generation)
  /\ calc = buildTrackerCalculationSet(tracker)
  /\ query = NoQuery
  /\ parse = NoParse

NextNarrow ==
  \E stat \in StatSet, evo \in Evolutions, level \in RecordLevels :
    \E value \in ObsValues(stat, evo, level, tracker.generation, {0, 31}) :
      /\ ObsCount(tracker) < MaxNarrowObs
      /\ ObservedStats(tracker) \subseteq {stat}
      /\ RecordStat(stat, evo, level, value)

SpecNarrow == InitNarrow /\ [][NextNarrow]_vars

------------------------------------------------------------------------------
(* SpecNature: nature inference; values that single out a regime are         *)
(* recorded for the non-HP stats, with or without manual pins                *)

InitNature ==
  /\ \E manualNegativeNature \in {NULL, "attack"},
        manualPositiveNature \in {NULL, "attack", "defense"} :
       tracker = [EmptyTracker(3) EXCEPT
                    !.manualNegativeNature = manualNegativeNature,
                    !.manualPositiveNature = manualPositiveNature]
  /\ calc = buildTrackerCalculationSet(tracker)
  /\ query = NoQuery
  /\ parse = NoParse

NextNature ==
  \E stat \in StatSet \ {"hp"} :
    \E value \in NatureObsValues(stat, 0, 18, tracker.generation) :
      /\ ObsCount(tracker) < MaxNatureObs
      /\ RecordStat(stat, 0, 18, value)

SpecNature == InitNature /\ [][NextNature]_vars

------------------------------------------------------------------------------
(* SpecStats: possible-value projection queried on trackers with recorded    *)
(* values                                                                    *)

\* A query leaves the tracker and its calculation set as they are, so values are
\* recorded from the states without a query only
NextStats ==
  \/ \E stat \in StatSet :
       \E value \in ObsValues(stat, 0, 18, tracker.generation, {31}) :
         /\ ObsCount(tracker) < MaxObs
         /\ query = NoQuery
         /\ RecordStat(stat, 0, 18, value)
  \/ \E stat \in StatSet, level \in RecordLevels : QueryPossibleStats(stat, level)

SpecStats == InitNature /\ [][NextStats]_vars

------------------------------------------------------------------------------
(* SpecParse: type lists typed by the route author are parsed                *)

\* parseTypeDefinition(rawTypes, onError): the returned list and the calls of
\* onError are recorded
ParseTypeDefinition ==
  /\ ~parse.called
  /\ parse' = [rawTypes |-> parse.rawTypes,
               called   |-> TRUE,
               result   |-> parseTypeDefinition(parse.rawTypes).result,
               errors   |-> parseTypeDefinition(parse.rawTypes).errors]
  /\ UNCHANGED <<tracker, calc, query>>

InitParse ==
  /\ tracker = EmptyTracker(3)
  /\ calc = buildTrackerCalculationSet(tracker)
  /\ query = NoQuery
  /\ \E rawTypes \in RawTypeLists : parse = [NoParse EXCEPT !.rawTypes = rawTypes]

NextParse == ParseTypeDefinition

SpecParse == InitParse /\ [][NextParse]_vars

------------------------------------------------------------------------------
(* Properties *)

IntervalKeys == {"negative", "neutral", "positive", "combined"}

FULL == <<0, 31>>

\* A sub-range of [0, 31] with min <= max, or the sentinel
ValidInterval(interval) ==
  \/ interval = SENTINEL
  \/ (0 <= interval[1] /\ interval[1] <= interval[2] /\ interval[2] <= 31)

\* C1: every one of the four intervals of every stat, as returned by
\* calculatePossibleIVRange and by calculateAllPossibleIVRanges, is the sentinel
\* or a pair [min, max] with 0 <= min <= max <= 31.
C1_IntervalsValidOrSentinel ==
  \A stat \in StatSet, key \in IntervalKeys :
    /\ ValidInterval(calculatePossibleIVRange(stat, tracker)[key])
    /\ ValidInterval(calc.ivRanges[stat][key])

\* new is contained in old, or is the sentinel
Contained(new, old) ==
  \/ new = SENTINEL
  \/ (old # SENTINEL /\ old[1] <= new[1] /\ new[2] <= old[2])

\* C2: in the observed-data path, recording one more stat value never widens a
\* regime's interval (the new interval is contained in the old one or is the
\* sentinel), and a regime that is the sentinel stays the sentinel.
C2_NarrowingMonotonic ==
  [][\A stat \in StatSet, key \in NatureKeys :
       /\ Contained(calc'.ivRanges[stat][key], calc.ivRanges[stat][key])
       /\ (calc.ivRanges[stat][key] = SENTINEL => calc'.ivRanges[stat][key] = SENTINEL)]_vars

\* Two values of a stat are recorded; one regime is narrowed to a proper
\* sub-range and another has collapsed
C2_Witness ==
  /\ ObsCount(tracker) >= 2
  /\ \E stat \in ObservedStats(tracker) :
       /\ \E key \in NatureKeys : calc.ivRanges[stat][key] \notin {SENTINEL, FULL}
       /\ \E key \in NatureKeys : calc.ivRanges[stat][key] = SENTINEL

\* C3, as stated: with zero recorded observations every regime interval of
\* every stat is [0, 31].
C3_NoObservationsFullRange ==
  ObsCount(tracker) = 0 =>
    \A stat \in StatSet, key \in NatureKeys :
      calculatePossibleIVRange(stat, tracker)[key] = FULL

\* C3, amended: with zero recorded observations every regime interval is
\* [0, 31] for every stat that has no static IV, in a tracker that is not in
\* direct-input mode.
C3_NoObservationsFullRangeObserved ==
  ObsCount(tracker) = 0 =>
    \A stat \in StatSet, key \in NatureKeys :
      (tracker.staticIVs[stat] = -1 /\ ~tracker.directInput) =>
        calculatePossibleIVRange(stat, tracker)[key] = FULL

\* No observation, a stat without a static IV next to one with a static IV
C3_Witness ==
  /\ ObsCount(tracker) = 0
  /\ ~tracker.directInput
  /\ \E stat \in StatSet : tracker.staticIVs[stat] = -1 /\ calc.ivRanges[stat].neutral = FULL
  /\ \E stat \in StatSet : tracker.staticIVs[stat] # -1

\* C4, as stated: for a regime whose interval is the sentinel, the valid set of
\* calculatePossibleStatValues(minIV = -1, maxIV = -1, that regime's modifier) is
\* empty, at every level and evolution stage.
C4_SentinelValidEmpty ==
  \A stat \in StatSet, key \in NatureKeys, level \in RecordLevels, evo \in Evolutions :
    calc.ivRanges[stat][key] = SENTINEL =>
      calculatePossibleStatValues(stat, level, BaseStats[evo][stat], -1, -1,
                                  EvAt(level, stat), {key}, tracker.generation).valid = {}

\* The stat values the IVs of the stat's non-sentinel regime intervals give
ValuesOfLiveRegimes(stat, level, t, ivRanges) ==
  UNION {{calculateStatOrHP(stat, level, BaseStats[t.evolution][stat], iv,
                            EvAt(level, stat), key, t.generation) :
            iv \in ivRanges[stat][key][1]..ivRanges[stat][key][2]} :
           key \in {k \in NatureKeys : ivRanges[stat][k] # SENTINEL}}

\* C4, amended: a regime whose interval is the sentinel contributes nothing to
\* the valid set calculatePossibleStats returns: every valid value is the value
\* of an IV inside a non-sentinel regime interval of the stat, and the valid set
\* is empty when all three regimes are the sentinel.
C4_SentinelRegimeContributesNothing ==
  query.stat # NULL =>
    /\ query.result.valid \subseteq
         ValuesOfLiveRegimes(query.stat, query.level, tracker, calc.ivRanges)
    /\ (\A key \in NatureKeys : calc.ivRanges[query.stat][key] = SENTINEL)
         => query.result.valid = {}

\* A query on a stat of which one admitted regime is the sentinel and another
\* is not
C4_Witness ==
  /\ query.stat # NULL
  /\ \E key \in RelevantModifiers(query.stat, calc.confirmedNature) :
       calc.ivRanges[query.stat][key] = SENTINEL
  /\ \E key \in RelevantModifiers(query.stat, calc.confirmedNature) :
       calc.ivRanges[query.stat][key] # SENTINEL
  /\ query.result.valid # {}

\* C5: without a static nature, calculatePossibleNature never returns a pair
\* with both components non-null in which the decreased component names a stat
\* whose negative interval is the sentinel or the increased component names a
\* stat whose positive interval is the sentinel.
C5_NaturePairViable ==
  ~HasStaticNature(tracker) =>
    LET nature == calculatePossibleNature(calc.ivRanges, tracker)
    IN ~(/\ nature[1] # NULL
         /\ nature[2] # NULL
         /\ \/ calc.ivRanges[nature[1]].negative = SENTINEL
            \/ calc.ivRanges[nature[2]].positive = SENTINEL)

\* <<n, probability of the n-th parity combination>> for the current ranges and
\* nature, n = 0..63
ProbabilityTable ==
  LET oddness == OddnessOfStats(calc.ivRanges, calc.confirmedNature)
  IN {<<n, ProductOfOddness(oddness, Combination(n))>> : n \in 0..63}

HiddenPowerTypeSet == {HIDDEN_POWER_TYPES[i] : i \in 1..Len(HIDDEN_POWER_TYPES)}

\* C6: calculateHiddenPowerType returns one of the 16 names of
\* HIDDEN_POWER_TYPES (the computed index is in 0..15) or null, and null if and
\* only if every one of the 64 parity combinations has probability zero.
C6_HiddenPowerTypeOrNull ==
  /\ calc.hiddenPowerType \in HiddenPowerTypeSet \cup {NULL}
  /\ \A n \in 0..63 : HiddenPowerIndex(Combination(n)) \in 0..15
  /\ calc.hiddenPowerType = NULL <=> \A p \in ProbabilityTable : p[2].num = 0

\* A recorded value leaves a stat without admissible IV: the result is null
C6_Witness ==
  /\ ObsCount(tracker) >= 1
  /\ \E stat \in StatSet :
       getUniqueIVValuesInRangeSet(calc.ivRanges[stat], stat, calc.confirmedNature) = {}
  /\ calc.hiddenPowerType = NULL

\* The combinations of maximal probability
MaximalCombinations ==
  LET table == ProbabilityTable
  IN {p[1] : p \in {p \in table : \A q \in table : ~GreaterThan(q[2], p[2])}}

\* The type the claim's formula gives for the parity bits
\* <<hp, attack, defense, spAttack, spDefense, speed>>
TypeOfBits(bits) ==
  HIDDEN_POWER_TYPES[(((bits[1] + bits[2] * 2 + bits[3] * 4 + bits[6] * 8
                          + bits[4] * 16 + bits[5] * 32) * 15) \div 63) + 1]

AdmissibleIVs(stat) ==
  getUniqueIVValuesInRangeSet(calc.ivRanges[stat], stat, calc.confirmedNature)

\* C7: calculateHiddenPowerType selects the combination of maximal probability,
\* the first in enumeration order when several tie, and returns
\* HIDDEN_POWER_TYPES[floor(((hp + atk*2 + def*4 + speed*8 + spAtk*16 + spDef*32) * 15) / 63)]
\* for its bits; when every stat's admissible IV set is a single value the result
\* is the type given by the parities of those six IVs.
C7_MostProbableCombination ==
  /\ calc.hiddenPowerType # NULL =>
       LET first == MathMin(MaximalCombinations)
       IN calc.hiddenPowerType =
            TypeOfBits([i \in 1..6 |-> Bit(Combination(first)[i])])
  /\ (\A stat \in StatSet : Cardinality(AdmissibleIVs(stat)) = 1) =>
       calc.hiddenPowerType =
         TypeOfBits([i \in 1..6 |-> (CHOOSE iv \in AdmissibleIVs(STATS[i]) : TRUE) % 2])

\* Every stat has one admissible IV, of both parities among the stats, and the
\* parities of special attack and speed differ
C7_Witness ==
  /\ \A stat \in StatSet : Cardinality(AdmissibleIVs(stat)) = 1
  /\ AdmissibleIVs("spAttack") = {30}
  /\ AdmissibleIVs("speed") = {31}
  /\ calc.hiddenPowerType = "Grass"

\* Several combinations tie at the maximal probability and the first is taken
C7_TieWitness ==
  /\ Cardinality(MaximalCombinations) > 1
  /\ calc.hiddenPowerType = "Fighting"

\* The IVs of [0, 31] that give every recorded value of the stat under the modifier
MatchingIVs(stat, key, t) ==
  {iv \in 0..31 :
     \A o \in Observations(t) :
       o[3] = stat =>
         calculateStatOrHP(stat, o[2], BaseStats[o[1]][stat], iv, EvAt(o[2], stat),
                           key, t.generation) = Recorded(t, o[1], o[2], stat)}

\* C8: generation >= 3, no static IVs, static nature, direct input or pins, the
\* only observations are of one non-HP stat, matched by some IV under the
\* positive modifier and by none under the neutral or the negative one: the
\* stat's positive interval is the bounds of the matching IVs, its neutral and
\* negative intervals are the sentinel, every other stat keeps [0, 31] in all
\* regimes, and the nature pair has the stat as its increased component.
C8_PositiveOnlyStatIsIncreased ==
  \A stat \in StatSet \ {"hp"} :
    (/\ tracker.generation >= 3
     /\ ObservedStats(tracker) = {stat}
     /\ MatchingIVs(stat, "positive", tracker) # {}
     /\ MatchingIVs(stat, "neutral", tracker) = {}
     /\ MatchingIVs(stat, "negative", tracker) = {})
    =>
    /\ calc.ivRanges[stat].positive =
         <<MathMin(MatchingIVs(stat, "positive", tracker)),
           MathMax(MatchingIVs(stat, "positive", tracker))>>
    /\ calc.ivRanges[stat].neutral = SENTINEL
    /\ calc.ivRanges[stat].negative = SENTINEL
    /\ \A other \in StatSet \ {stat}, key \in NatureKeys : calc.ivRanges[other][key] = FULL
    /\ calculatePossibleNature(calc.ivRanges, tracker)[2] = stat
    /\ calc.confirmedNature[2] = stat

\* Two values of attack are recorded, both matched under the positive modifier only
C8_Witness ==
  /\ tracker.generation >= 3
  /\ ObservedStats(tracker) = {"attack"}
  /\ ObsCount(tracker) = 2
  /\ MatchingIVs("attack", "positive", tracker) # {}
  /\ MatchingIVs("attack", "neutral", tracker) = {}
  /\ MatchingIVs("attack", "negative", tracker) = {}
  /\ calc.ivRanges["attack"].positive # FULL
  /\ calc.confirmedNature = <<NULL, "attack">>

\* C9, as stated: without a static nature, when the increased stat is confirmed
\* and exactly one candidate stat other than it is viable for the decreased
\* role, the decreased component is that stat (and symmetrically); a component
\* that is neither confirmed nor so determined, with several viable candidates,
\* is null.  (Read for a component that is not itself confirmed.)
C9_ExclusionAmongOthers ==
  ~HasStaticNature(tracker) =>
    LET nature == calculatePossibleNature(calc.ivRanges, tracker)
        cn == ConfirmedNegative(calc.ivRanges, tracker)
        cp == ConfirmedPositive(calc.ivRanges, tracker)
        otherNegatives == PossibleNegatives(calc.ivRanges) \ {cp}
        otherPositives == PossiblePositives(calc.ivRanges) \ {cn}
    IN /\ (cp # NULL /\ cn = NULL /\ Cardinality(otherNegatives) = 1)
            => nature[1] \in otherNegatives
       /\ (cn # NULL /\ cp = NULL /\ Cardinality(otherPositives) = 1)
            => nature[2] \in otherPositives
       /\ (cn = NULL /\ Cardinality(otherNegatives) > 1) => nature[1] = NULL
       /\ (cp = NULL /\ Cardinality(otherPositives) > 1) => nature[2] = NULL

\* C9, amended: without a static nature and with some stat viable for each
\* role, when the increased stat is confirmed, the decreased one is not, and
\* exactly one stat (the confirmed increased stat counted with the others) is
\* viable for the decreased role, the decreased component is that stat (and
\* symmetrically); a component that is not confirmed is null when several stats
\* are viable for it or when the other component is not confirmed either.
C9_ExclusionAmongAll ==
  (/\ ~HasStaticNature(tracker)
   /\ PossibleNegatives(calc.ivRanges) # {}
   /\ PossiblePositives(calc.ivRanges) # {})
  =>
    LET nature == calculatePossibleNature(calc.ivRanges, tracker)
        cn == ConfirmedNegative(calc.ivRanges, tracker)
        cp == ConfirmedPositive(calc.ivRanges, tracker)
        negatives == PossibleNegatives(calc.ivRanges)
        positives == PossiblePositives(calc.ivRanges)
    IN /\ (cp # NULL /\ cn = NULL /\ Cardinality(negatives) = 1) => negatives = {nature[1]}
       /\ (cn # NULL /\ cp = NULL /\ Cardinality(positives) = 1) => positives = {nature[2]}
       /\ (cn = NULL /\ (Cardinality(negatives) > 1 \/ cp = NULL)) => nature[1] = NULL
       /\ (cp = NULL /\ (Cardinality(positives) > 1 \/ cn = NULL)) => nature[2] = NULL
       /\ calc.confirmedNature = nature

\* The increased stat is confirmed, the decreased one is not, one stat other
\* than the increased one is left for the decreased role and is inferred
C9_Witness ==
  LET cn == ConfirmedNegative(calc.ivRanges, tracker)
      cp == ConfirmedPositive(calc.ivRanges, tracker)
  IN /\ cp # NULL
     /\ cn = NULL
     /\ Cardinality(PossibleNegatives(calc.ivRanges)) = 1
     /\ PossiblePositives(calc.ivRanges) # {}
     /\ calc.confirmedNature[1] \in PossibleNegatives(calc.ivRanges) \ {cp}
     /\ calc.confirmedNature[2] = cp

\* The regime interval C10 gives a direct-input stat
DirectInputExpected(stat, key, t) ==
  LET v == <<t.directInputIVs[stat], t.directInputIVs[stat]>>
      increased == t.manualPositiveNature = stat /\ t.manualNegativeNature # stat
      decreased == t.manualNegativeNature = stat /\ t.manualPositiveNature # stat
  IN CASE increased -> IF key = "positive" THEN v ELSE SENTINEL
       [] decreased -> IF key = "negative" THEN v ELSE SENTINEL
       [] OTHER ->
            CASE key = "positive" -> IF t.manualPositiveNature # NULL THEN SENTINEL ELSE v
              [] key = "negative" -> IF t.manualNegativeNature # NULL THEN SENTINEL ELSE v
              [] key = "neutral"  -> v

\* C10: in direct-input mode (no static IV for the stat) every regime interval
\* is [v, v] for the stat's direct-input IV v, except that a regime contradicted
\* by the manually pinned decreased / increased stats is the sentinel, whether
\* or not a static nature is configured.
C10_DirectInputPins ==
  tracker.directInput =>
    \A stat \in StatSet, key \in NatureKeys :
      tracker.staticIVs[stat] = -1 =>
        calculatePossibleIVRange(stat, tracker)[key] = DirectInputExpected(stat, key, tracker)

\* The trimmed, lower-cased tokens of the parsed text
Tokens == TypeSegments(parse.rawTypes)

\* C11: when some trimmed, lower-cased token (the empty one included) is outside
\* the type-name set, parseTypeDefinition returns the empty list and calls the
\* error callback exactly once, with an offending token; when every token is in
\* the set it returns the tokens in order and never calls the callback.
C11_ParseTypeDefinition ==
  parse.called =>
    IF \E i \in 1..Len(Tokens) : Tokens[i] \notin TYPE_NAMES
      THEN /\ parse.result = <<>>
           /\ Len(parse.errors) = 1
           /\ \E i \in 1..Len(Tokens) :
                Tokens[i] \notin TYPE_NAMES /\ parse.errors[1] = Tokens[i]
      ELSE /\ parse.result = Tokens
           /\ parse.errors = <<>>

\* The regimes C12 takes as consistent with the nature pair for the stat
ConsistentRegimes(stat, confirmedNature) ==
  LET decreased == confirmedNature[1]
      increased == confirmedNature[2]
  IN IF increased = stat /\ decreased # stat THEN {"positive"}
     ELSE IF decreased = stat /\ increased # stat THEN {"negative"}
     ELSE {"neutral"} \cup (IF decreased = NULL THEN {"negative"} ELSE {})
                      \cup (IF increased = NULL THEN {"positive"} ELSE {})

\* The regimes getPossibleNatureAdjustmentsForStat admits, as keys
AdjustmentKeys(rangeSet, stat, confirmedNature) ==
  LET admitted == getPossibleNatureAdjustmentsForStat(rangeSet, stat, confirmedNature)
  IN (IF admitted[1] THEN {"negative"} ELSE {})
       \cup (IF admitted[2] THEN {"neutral"} ELSE {})
       \cup (IF admitted[3] THEN {"positive"} ELSE {})

\* [smallest lower bound, largest upper bound] of the non-sentinel intervals of
\* the regimes
BoundsOver(rangeSet, keys) ==
  LET live == {rangeSet[key] : key \in keys} \ {SENTINEL}
  IN <<MathMin({value[1] : value \in live}), MathMax({value[2] : value \in live})>>

\* C12: after calculateAllPossibleIVRanges each stat's combined interval is
\* [smallest lower bound, largest upper bound] over the non-sentinel regime
\* intervals consistent with the resolved nature pair (only positive for the
\* increased stat, only negative for the decreased one, otherwise neutral, plus
\* negative if no decreased stat is known, plus positive if no increased stat is
\* known), and the same over the regimes getPossibleNatureAdjustmentsForStat and
\* calculatePossibleStats admit.
C12_CombinedOverConsistentRegimes ==
  \A stat \in StatSet :
    LET rangeSet == calc.ivRanges[stat]
        nature == calc.confirmedNature
    IN /\ rangeSet.combined = BoundsOver(rangeSet, ConsistentRegimes(stat, nature))
       /\ rangeSet.combined = BoundsOver(rangeSet, AdjustmentKeys(rangeSet, stat, nature))
       /\ rangeSet.combined = BoundsOver(rangeSet, RelevantModifiers(stat, nature))

\* The IV values of the non-sentinel intervals of the regimes
ValuesOver(rangeSet, keys) ==
  UNION {rangeSet[key][1]..rangeSet[key][2] : key \in {k \in keys : rangeSet[k] # SENTINEL}}

\* C13: the IV values the hidden-power resolver counts as admissible for a stat
\* (getUniqueIVValuesInRangeSet) are the values of the non-sentinel regime
\* intervals getPossibleNatureAdjustmentsForStat admits; when both components of
\* the nature pair name the stat, they are the values of its neutral interval.
C13_AdmissibleValuesFollowAdjustments ==
  \A stat \in StatSet :
    LET rangeSet == calc.ivRanges[stat]
        nature == calc.confirmedNature
        values == getUniqueIVValuesInRangeSet(rangeSet, stat, nature)
    IN /\ values = ValuesOver(rangeSet, AdjustmentKeys(rangeSet, stat, nature))
       /\ (nature[1] = stat /\ nature[2] = stat) => values = ValuesOver(rangeSet, {"neutral"})

====
